---------------------------- MODULE Spec2Model ----------------------------
(***************************************************************************)
(* Model of server.js: a reverse proxy that injects a configured snippet   *)
(* at a marker of buffered upstream responses.                             *)
(*                                                                         *)
(* Text is modelled as a sequence of one-character strings.  Upstream      *)
(* bodies are sequences of bytes; an ASCII byte is written as its          *)
(* character, the bytes of multi-byte characters by their hex value.       *)
(***************************************************************************)
EXTENDS Integers, Sequences, FiniteSets, TLC

(***************************************************************************)
(* Bounds of the model.                                                    *)
(***************************************************************************)
MaxBody == 4
MaxPayload == 2
NumReq == 2
ChunkSize == 2

(***************************************************************************)
(* JavaScript string primitives used by server.js.                        *)
(***************************************************************************)
RECURSIVE Concat(_)
Concat(ss) == IF ss = <<>> THEN <<>> ELSE Head(ss) \o Concat(Tail(ss))

\* F applied to the value of e (e is evaluated once, before F)
With(e, F(_)) == CHOOSE y \in {F(x) : x \in {e}} : TRUE

Seqs(A, n) == UNION {[1..k -> A] : k \in 0..n}

Drop(s, k) == SubSeq(s, k + 1, Len(s))

Take(s, k) == SubSeq(s, 1, k)

\* t occurs in s at (1-based) position i
MatchAt(s, t, i) == /\ i >= 1
                    /\ i + Len(t) - 1 <= Len(s)
                    /\ SubSeq(s, i, i + Len(t) - 1) = t

\* String.prototype.indexOf, 1-based; 0 when t does not occur in s
indexOf(s, t) ==
    IF \E i \in 1..(Len(s) + 1) : MatchAt(s, t, i)
    THEN CHOOSE i \in 1..(Len(s) + 1) :
            /\ MatchAt(s, t, i)
            /\ \A j \in 1..(i - 1) : ~MatchAt(s, t, j)
    ELSE 0

\* String.prototype.includes
includes(s, t) == indexOf(s, t) # 0

\* String.prototype.split with a non-empty separator
RECURSIVE split(_, _)
split(s, sep) ==
    With(indexOf(s, sep), LAMBDA i :
        IF i = 0 THEN <<s>>
        ELSE <<Take(s, i - 1)>> \o split(Drop(s, i - 1 + Len(sep)), sep))

\* Array.prototype.join
RECURSIVE join(_, _)
join(parts, glue) ==
    IF Len(parts) = 0 THEN <<>>
    ELSE IF Len(parts) = 1 THEN parts[1]
    ELSE parts[1] \o glue \o join(Tail(parts), glue)

\* The backtick character (which the string syntax cannot spell)
BackTick == "BACKTICK"

\* GetSubstitution of String.prototype.replace for a string pattern (no
\* capture groups): $$ is "$", $& the match, $` the text before the match,
\* $' the text after it; any other "$" is literal.
RECURSIVE GetSubstitution(_, _, _, _)
GetSubstitution(matched, before, after, tmpl) ==
    IF tmpl = <<>> THEN <<>>
    ELSE IF tmpl[1] = "$" /\ Len(tmpl) >= 2 /\ tmpl[2] \in {"$", "&", BackTick, "'"}
    THEN (CASE tmpl[2] = "$" -> <<"$">>
            [] tmpl[2] = "&" -> matched
            [] tmpl[2] = BackTick -> before
            [] tmpl[2] = "'" -> after)
         \o GetSubstitution(matched, before, after, Drop(tmpl, 2))
    ELSE <<tmpl[1]>> \o GetSubstitution(matched, before, after, Tail(tmpl))

\* String.prototype.replace(pattern, replacement), both strings: the first
\* occurrence only, the replacement expanded by GetSubstitution
replace(s, pat, repl) ==
    With(indexOf(s, pat), LAMBDA i :
        IF i = 0 THEN s
        ELSE LET before == Take(s, i - 1)
                 after  == Drop(s, i - 1 + Len(pat))
             IN before \o GetSubstitution(pat, before, after, repl) \o after)

WhiteSpace == {" "}

\* String.prototype.trim
RECURSIVE trimStart(_)
trimStart(s) == IF s # <<>> /\ Head(s) \in WhiteSpace THEN trimStart(Tail(s)) ELSE s

RECURSIVE trimEnd(_)
trimEnd(s) ==
    IF s # <<>> /\ s[Len(s)] \in WhiteSpace THEN trimEnd(Take(s, Len(s) - 1)) ELSE s

trim(s) == trimEnd(trimStart(s))

Upper == <<"A", "B", "C", "E", "F", "H", "J", "K", "L", "O", "R", "S", "T", "U", "W", "X">>

Lower == <<"a", "b", "c", "e", "f", "h", "j", "k", "l", "o", "r", "s", "t", "u", "w", "x">>

\* String.prototype.toLowerCase
toLowerCase(s) ==
    [i \in 1..Len(s) |->
        IF \E k \in 1..Len(Upper) : Upper[k] = s[i]
        THEN Lower[CHOOSE k \in 1..Len(Upper) : Upper[k] = s[i]]
        ELSE s[i]]

\* a || b on strings: the empty string is falsy
OrElse(a, b) == IF a # <<>> THEN a ELSE b

(***************************************************************************)
(* ENVIRONMENT VARIABLES and the constants server.js resolves from them.   *)
(* The long default values are abbreviated: "</head>" is "m", the default  *)
(* script tag is "p", "text/html" is "t/h", "/healthz" is "/h" and the     *)
(* default exclusion list "^/wp-admin,^/wp-json,^/xmlrpc.php" is           *)
(* "^/w,^/j,^/x.p".                                                        *)
(***************************************************************************)
VARIABLES
    INJECT_HTML, INJECT_TARGET, INJECT_MODE, INJECT_ONCE,
    CT_MATCH, INJECT_IF_HEADER, EXCLUDE_PATTERNS, HEALTH_PATH,
    injArg, injRet,
    pc, req, skipInject, proxyReq, proxyRes, buffer, res

config == <<INJECT_HTML, INJECT_TARGET, INJECT_MODE, INJECT_ONCE,
            CT_MATCH, INJECT_IF_HEADER, EXCLUDE_PATTERNS, HEALTH_PATH>>

DEFAULT_INJECT_HTML == <<"p">>

DEFAULT_INJECT_TARGET == <<"m">>

DEFAULT_INJECT_MODE == <<"b", "e", "f", "o", "r", "e">>

After == <<"a", "f", "t", "e", "r">>

DEFAULT_INJECT_ONCE == <<"t", "r", "u", "e">>

DEFAULT_CT_MATCH == <<"t", "/", "h">>

DEFAULT_EXCLUDE_RAW == <<"^", "/", "w", ",", "^", "/", "j", ",", "^", "/", "x", ".", "p">>

DEFAULT_HEALTH_PATH == <<"/", "h">>

\* new RegExp(p) for patterns made of literal characters, ".", a leading "^"
\* and a trailing "$"
RegExp(p) ==
    LET start == p # <<>> /\ p[1] = "^"
        p1    == IF start THEN Tail(p) ELSE p
        end   == p1 # <<>> /\ p1[Len(p1)] = "$"
        body  == IF end THEN Take(p1, Len(p1) - 1) ELSE p1
    IN [start |-> start, end |-> end, body |-> body]

\* RegExp.prototype.test (no g flag: a stateless search)
test(rx, s) ==
    \E i \in 1..(Len(s) + 1) :
        /\ rx.start => i = 1
        /\ i + Len(rx.body) - 1 <= Len(s)
        /\ rx.end => i + Len(rx.body) - 1 = Len(s)
        /\ \A k \in 1..Len(rx.body) : rx.body[k] = "." \/ rx.body[k] = s[i + k - 1]

\* EXCLUDE_RAW.split(",").map(s => s.trim()).filter(Boolean).map(p => new RegExp(p))
CompileExcludePatterns(raw) ==
    LET parts   == split(raw, <<",">>)
        trimmed == [i \in 1..Len(parts) |-> trim(parts[i])]
        kept    == SelectSeq(trimmed, LAMBDA p : p # <<>>)
    IN [i \in 1..Len(kept) |-> RegExp(kept[i])]

\* The constants of server.js for one process environment
ResolveConfig(env) ==
    [INJECT_HTML      |-> OrElse(env.INJECT_HTML, DEFAULT_INJECT_HTML),
     INJECT_TARGET    |-> OrElse(env.INJECT_TARGET, DEFAULT_INJECT_TARGET),
     INJECT_MODE      |-> toLowerCase(OrElse(env.INJECT_MODE, DEFAULT_INJECT_MODE)),
     INJECT_ONCE      |-> toLowerCase(OrElse(env.INJECT_ONCE, DEFAULT_INJECT_ONCE))
                              = DEFAULT_INJECT_ONCE,
     CT_MATCH         |-> toLowerCase(OrElse(env.INJECT_CT_MATCH, DEFAULT_CT_MATCH)),
     INJECT_IF_HEADER |-> toLowerCase(env.INJECT_IF_HEADER),
     EXCLUDE_PATTERNS |-> CompileExcludePatterns(
                              OrElse(env.INJECT_EXCLUDE_PATHS, DEFAULT_EXCLUDE_RAW)),
     HEALTH_PATH      |-> OrElse(env.HEALTH_PATH, DEFAULT_HEALTH_PATH)]

\* The process starts with the constants resolved from env
Configured(env) ==
    LET c == ResolveConfig(env) IN
    /\ INJECT_HTML = c.INJECT_HTML
    /\ INJECT_TARGET = c.INJECT_TARGET
    /\ INJECT_MODE = c.INJECT_MODE
    /\ INJECT_ONCE = c.INJECT_ONCE
    /\ CT_MATCH = c.CT_MATCH
    /\ INJECT_IF_HEADER = c.INJECT_IF_HEADER
    /\ EXCLUDE_PATTERNS = c.EXCLUDE_PATTERNS
    /\ HEALTH_PATH = c.HEALTH_PATH

\* The environment with every variable unset
NoEnv ==
    [INJECT_HTML |-> <<>>, INJECT_TARGET |-> <<>>, INJECT_MODE |-> <<>>,
     INJECT_ONCE |-> <<>>, INJECT_CT_MATCH |-> <<>>, INJECT_IF_HEADER |-> <<>>,
     INJECT_EXCLUDE_PATHS |-> <<>>, HEALTH_PATH |-> <<>>]

(***************************************************************************)
(* isExcludedPath and injectIntoHtml                                       *)
(***************************************************************************)
isExcludedPath(path) ==
    \E i \in 1..Len(EXCLUDE_PATTERNS) : test(EXCLUDE_PATTERNS[i], path)

\* injectIntoHtml with a payload check that forgets to trim
injectNoTrim(html, payload, target, mode, once) ==
    IF payload = <<>> THEN [out |-> html, changed |-> FALSE]
    ELSE IF ~includes(html, target) THEN [out |-> html, changed |-> FALSE]
    ELSE LET unit == IF mode = After THEN target \o payload ELSE payload \o target
         IN With(IF once THEN replace(html, target, unit)
                 ELSE join(split(html, target), unit),
                 LAMBDA out : [out |-> out, changed |-> out # html])

\* injectIntoHtml, the constants it reads made parameters
injectWith(html, payload, target, mode, once) ==
    IF trim(payload) = <<>> THEN [out |-> html, changed |-> FALSE]
    ELSE IF ~includes(html, target) THEN [out |-> html, changed |-> FALSE]
    ELSE LET unit == IF mode = After THEN target \o payload ELSE payload \o target
         IN With(IF once THEN replace(html, target, unit)
                 ELSE join(split(html, target), unit),
                 LAMBDA out : [out |-> out, changed |-> out # html])

injectIntoHtml(html) ==
    injectWith(html, INJECT_HTML, INJECT_TARGET, INJECT_MODE, INJECT_ONCE)

\* The result variable before the call
NotCalled == [out |-> <<>>, changed |-> FALSE, called |-> FALSE]

(***************************************************************************)
(* UTF-8: Buffer.toString("utf8"), Buffer.from(string) and                 *)
(* Buffer.byteLength(string, "utf8").  The characters outside ASCII are    *)
(* U+00E9 (bytes C3 A9) and the replacement character U+FFFD (EF BF BD),   *)
(* which decoding puts in the place of every malformed sequence.           *)
(***************************************************************************)
EAcute == "U+00E9"

Replacement == "U+FFFD"

NonAsciiBytes == {"0xC3", "0xA9", "0xEF", "0xBF", "0xBD"}

utf8Encode(str) ==
    Concat([i \in 1..Len(str) |->
              CASE str[i] = EAcute      -> <<"0xC3", "0xA9">>
                [] str[i] = Replacement -> <<"0xEF", "0xBF", "0xBD">>
                [] OTHER                -> <<str[i]>>])

RECURSIVE utf8Decode(_)
utf8Decode(b) ==
    IF b = <<>> THEN <<>>
    ELSE IF Len(b) >= 2 /\ Take(b, 2) = <<"0xC3", "0xA9">>
    THEN <<EAcute>> \o utf8Decode(Drop(b, 2))
    ELSE IF Len(b) >= 3 /\ Take(b, 3) = <<"0xEF", "0xBF", "0xBD">>
    THEN <<Replacement>> \o utf8Decode(Drop(b, 3))
    ELSE IF Len(b) >= 2 /\ Take(b, 2) = <<"0xEF", "0xBF">>
    THEN <<Replacement>> \o utf8Decode(Drop(b, 2))
    ELSE IF b[1] \in NonAsciiBytes
    THEN <<Replacement>> \o utf8Decode(Tail(b))
    ELSE <<b[1]>> \o utf8Decode(Tail(b))

\* The length in characters (String.length) instead of bytes
byteLengthChars(str) == Len(str)

\* Buffer.byteLength(str, "utf8")
byteLength(str) == Len(utf8Encode(str))

(***************************************************************************)
(* The HTTP surface: Express routing, the proxy middleware and its two     *)
(* callbacks.  Each request in flight has its own req object, upstream     *)
(* request (proxyReq), upstream response (proxyRes) and interceptor buffer.*)
(***************************************************************************)
Reqs == 1..NumReq

NoRequest == [method |-> "", url |-> <<>>]

NoProxyReq == [calls |-> 0, acceptEncoding |-> "", stalled |-> FALSE]

NoProxyRes == [open |-> FALSE, statusCode |-> 0, headers |-> <<>>,
               contentLength |-> 0, body |-> <<>>, delivered |-> 0]

ContentType == <<"c", "t">>

ContentLength == <<"c", "l">>

OkBody == <<"o", "k">>

ErrorBody == <<"e", "r", "r">>

\* One place for the flag of every request
ReqObjectShared(r) == 1

\* The value of req.__skipInject: "undefined" until the request callback has
\* run, then the boolean it stored
ToFlag(b) == IF b THEN "true" ELSE "false"

\* The req object that carries __skipInject for request r
ReqObject(r) == r

\* req.path: the url up to the query string
PathOf(url) ==
    IF includes(url, <<"?">>) THEN Take(url, indexOf(url, <<"?">>) - 1) ELSE url

\* A route that answers every method
HealthRouteAnyMethod(request) ==
    LET path  == toLowerCase(PathOf(request.url))
        route == toLowerCase(HEALTH_PATH)
    IN path = route \/ path = route \o <<"/">>

\* Express's match of the route app.get(HEALTH_PATH) against a request: the
\* methods GET and HEAD, the path compared case-insensitively with one
\* optional trailing slash, the query string ignored
HealthRoute(request) ==
    /\ request.method \in {"GET", "HEAD"}
    /\ LET path  == toLowerCase(PathOf(request.url))
           route == toLowerCase(HEALTH_PATH)
       IN path = route \/ path = route \o <<"/">>

\* IncomingMessage.headers of the raw header lines: names in lower case
IncomingHeaders(raw) ==
    [n \in {toLowerCase(h[1]) : h \in raw} |->
        (CHOOSE h \in raw : toLowerCase(h[1]) = n)[2]]

\* Object.keys(proxyRes.headers).map(h => h.toLowerCase())
HeaderNames(headers) == {toLowerCase(h) : h \in DOMAIN headers \cup {ContentLength}}

\* proxyRes.headers["content-type"] || "", in lower case
ResponseContentType(headers) ==
    toLowerCase(IF ContentType \in DOMAIN headers THEN headers[ContentType] ELSE <<>>)

\* The content-type rule with the operands of includes exchanged
WrongContentTypeSwapped(ct) == CT_MATCH # <<>> /\ ~includes(CT_MATCH, ct)

\* CT_MATCH && !ct.includes(CT_MATCH)
WrongContentType(ct) == CT_MATCH # <<>> /\ ~includes(ct, CT_MATCH)

\* INJECT_IF_HEADER is set and no header of the response has that name
MissingRequiredHeader(headers) ==
    INJECT_IF_HEADER # <<>> /\ INJECT_IF_HEADER \notin HeaderNames(headers)

\* The function given to responseInterceptor: what it returns for a buffered
\* body, the content-length it leaves in proxyRes.headers, and whether it
\* called injectIntoHtml
Interceptor(buf, pres, skip) ==
    LET pass == [body |-> buf, contentLength |-> pres.contentLength,
                 injectorRan |-> FALSE, changed |-> FALSE]
    IN IF skip = "true" THEN pass
       ELSE IF WrongContentType(ResponseContentType(pres.headers)) THEN pass
       ELSE IF MissingRequiredHeader(pres.headers) THEN pass
       ELSE With(utf8Decode(buf), LAMBDA html :
            With(injectIntoHtml(html), LAMBDA r :
               IF ~r.changed THEN [pass EXCEPT !.injectorRan = TRUE]
               ELSE [body |-> utf8Encode(r.out), contentLength |-> byteLength(r.out),
                     injectorRan |-> TRUE, changed |-> TRUE]))

proxy == <<pc, req, skipInject, proxyReq, proxyRes, buffer, res>>

vars == <<config, injArg, injRet, proxy>>

\* No request has arrived
Idle ==
    /\ pc = [r \in Reqs |-> "idle"]
    /\ req = [r \in Reqs |-> NoRequest]
    /\ skipInject = [r \in Reqs |-> "undefined"]
    /\ proxyReq = [r \in Reqs |-> NoProxyReq]
    /\ proxyRes = [r \in Reqs |-> NoProxyRes]
    /\ buffer = [r \in Reqs |-> <<>>]
    /\ res = [r \in Reqs |-> <<>>]

InFlight == {r \in Reqs : pc[r] # "idle"}

\* A client's request arrives (at most `limit` requests are open at a time)
Receive(r, requests, limit) ==
    /\ pc[r] = "idle"
    /\ Cardinality(InFlight) < limit
    /\ \E request \in requests : req' = [req EXCEPT ![r] = request]
    /\ pc' = [pc EXCEPT ![r] = "received"]
    /\ UNCHANGED <<config, injArg, injRet, skipInject, proxyReq, proxyRes, buffer, res>>

\* app.get(HEALTH_PATH, (_, res) => res.status(200).send("ok"))
HealthCheck(r) ==
    /\ pc[r] = "received"
    /\ HealthRoute(req[r])
    /\ res' = [res EXCEPT ![r] = Append(@,
                 [by |-> "health", statusCode |-> 200,
                  body |-> IF req[r].method = "HEAD" THEN <<>> ELSE OkBody,
                  contentLength |-> Len(OkBody), injectorRan |-> FALSE,
                  changed |-> FALSE])]
    /\ pc' = [pc EXCEPT ![r] = "responded"]
    /\ UNCHANGED <<config, injArg, injRet, req, skipInject, proxyReq, proxyRes, buffer>>

\* The proxy middleware takes every request no route answered; onProxyReq
\* runs before the upstream request is sent
OnProxyReq(r) ==
    /\ pc[r] = "received"
    /\ ~HealthRoute(req[r])
    /\ proxyReq' = [proxyReq EXCEPT ![r] =
                      [calls |-> @.calls + 1, acceptEncoding |-> "identity",
                       stalled |-> FALSE]]
    /\ skipInject' = [skipInject EXCEPT ![ReqObject(r)] = ToFlag(isExcludedPath(req[r].url))]
    /\ pc' = [pc EXCEPT ![r] = "forwarded"]
    /\ UNCHANGED <<config, injArg, injRet, req, proxyRes, buffer, res>>

\* The upstream's status line and headers arrive: responseInterceptor starts
\* an empty buffer for this response
UpstreamResponds(r, responses) ==
    /\ pc[r] = "forwarded"
    /\ ~proxyReq[r].stalled
    /\ \E response \in responses :
          proxyRes' = [proxyRes EXCEPT ![r] =
                         [open |-> TRUE, statusCode |-> response.statusCode,
                          headers |-> IncomingHeaders(response.rawHeaders),
                          contentLength |-> Len(response.body),
                          body |-> response.body, delivered |-> 0]]
    /\ buffer' = [buffer EXCEPT ![r] = <<>>]
    /\ pc' = [pc EXCEPT ![r] = "receiving"]
    /\ UNCHANGED <<config, injArg, injRet, req, skipInject, proxyReq, res>>

\* The part of the upstream body that has not arrived yet
Rest(pres) == Drop(pres.body, pres.delivered)

\* 'data': buffer = Buffer.concat([buffer, chunk])
ProxyResData(r) ==
    /\ pc[r] = "receiving"
    /\ ~proxyReq[r].stalled
    /\ Rest(proxyRes[r]) # <<>>
    /\ LET rest == Rest(proxyRes[r])
           n    == IF Len(rest) < ChunkSize THEN Len(rest) ELSE ChunkSize
       IN /\ buffer' = [buffer EXCEPT ![r] = @ \o Take(rest, n)]
          /\ proxyRes' = [proxyRes EXCEPT ![r].delivered = @ + n]
    /\ UNCHANGED <<config, injArg, injRet, pc, req, skipInject, proxyReq, res>>

\* 'end': the interceptor runs on the whole buffer and its result is written
\* to the client with the upstream's status
ProxyResEnd(r) ==
    /\ pc[r] = "receiving"
    /\ ~proxyReq[r].stalled
    /\ Rest(proxyRes[r]) = <<>>
    /\ \E i \in {Interceptor(buffer[r], proxyRes[r], skipInject[ReqObject(r)])} :
          res' = [res EXCEPT ![r] = Append(@,
                    [by |-> "interceptor", statusCode |-> proxyRes[r].statusCode,
                     body |-> i.body, contentLength |-> i.contentLength,
                     injectorRan |-> i.injectorRan, changed |-> i.changed])]
    /\ proxyRes' = [proxyRes EXCEPT ![r].open = FALSE]
    /\ pc' = [pc EXCEPT ![r] = "responded"]
    /\ UNCHANGED <<config, injArg, injRet, req, skipInject, proxyReq, buffer>>

\* 'error' on the upstream response while its body is read: the client gets
\* the error text and nothing of the buffer
ProxyResError(r) ==
    /\ pc[r] = "receiving"
    /\ ~proxyReq[r].stalled
    /\ res' = [res EXCEPT ![r] = Append(@,
                 [by |-> "streamError", statusCode |-> 200, body |-> ErrorBody,
                  contentLength |-> Len(ErrorBody), injectorRan |-> FALSE,
                  changed |-> FALSE])]
    /\ proxyRes' = [proxyRes EXCEPT ![r].open = FALSE]
    /\ pc' = [pc EXCEPT ![r] = "responded"]
    /\ UNCHANGED <<config, injArg, injRet, req, skipInject, proxyReq, buffer>>

\* An error handler that sends the request upstream again
ProxyErrorRetry(r) ==
    /\ pc[r] = "forwarded"
    /\ ~proxyReq[r].stalled
    /\ proxyReq[r].calls < 2
    /\ proxyReq' = [proxyReq EXCEPT ![r].calls = @ + 1]
    /\ UNCHANGED <<config, injArg, injRet, pc, req, skipInject, proxyRes, buffer, res>>

\* The upstream cannot be reached: the middleware's error handler answers
ProxyError(r) ==
    /\ pc[r] = "forwarded"
    /\ ~proxyReq[r].stalled
    /\ res' = [res EXCEPT ![r] = Append(@,
                 [by |-> "proxyError", statusCode |-> 504, body |-> ErrorBody,
                  contentLength |-> Len(ErrorBody), injectorRan |-> FALSE,
                  changed |-> FALSE])]
    /\ pc' = [pc EXCEPT ![r] = "responded"]
    /\ UNCHANGED <<config, injArg, injRet, req, skipInject, proxyReq, proxyRes, buffer>>

\* The upstream stops answering; no timeout is set on the upstream request
UpstreamStalls(r) ==
    /\ pc[r] \in {"forwarded", "receiving"}
    /\ ~proxyReq[r].stalled
    /\ proxyReq' = [proxyReq EXCEPT ![r].stalled = TRUE]
    /\ UNCHANGED <<config, injArg, injRet, pc, req, skipInject, proxyRes, buffer, res>>

\* The exchange is over and its objects are dropped
Close(r) ==
    /\ pc[r] = "responded"
    /\ pc' = [pc EXCEPT ![r] = "idle"]
    /\ req' = [req EXCEPT ![r] = NoRequest]
    /\ skipInject' = [skipInject EXCEPT ![ReqObject(r)] = "undefined"]
    /\ proxyReq' = [proxyReq EXCEPT ![r] = NoProxyReq]
    /\ proxyRes' = [proxyRes EXCEPT ![r] = NoProxyRes]
    /\ buffer' = [buffer EXCEPT ![r] = <<>>]
    /\ res' = [res EXCEPT ![r] = <<>>]
    /\ UNCHANGED <<config, injArg, injRet>>

(***************************************************************************)
(* Requests and upstream responses the specifications draw from            *)
(***************************************************************************)
Url(path, query) == IF query = <<>> THEN path ELSE path \o <<"?">> \o query

Html == {<<<<"C", "T">>, <<"t", "/", "h">>>>}

HtmlCharset == {<<<<"c", "t">>, <<"T", "/", "H", ";", "c">>>>}

Json == {<<<<"C", "t">>, <<"a", "/", "j">>>>}

Flag == {<<<<"X", "-", "F">>, <<"1">>>>}

Plain == {}

Response(status, headers, body) ==
    [statusCode |-> status, rawHeaders |-> headers, body |-> body]

(***************************************************************************)
(* Spec: concurrent requests under the default configuration               *)
(***************************************************************************)
SpecEnvs == {NoEnv}

SpecRequests ==
    {[method |-> "GET",  url |-> <<"/", "h">>],
     [method |-> "HEAD", url |-> <<"/", "H", "/", "?", "x">>],
     [method |-> "POST", url |-> <<"/", "h">>],
     [method |-> "GET",  url |-> <<"/", "w">>],
     [method |-> "GET",  url |-> <<"/", "x">>]}

SpecResponses == {Response(200, Html, <<"m">>), Response(500, Html, <<"x", "m">>)}

ProxyInit(envs) ==
    /\ \E env \in envs : Configured(env)
    /\ injArg = <<>>
    /\ injRet = NotCalled
    /\ Idle

ProxyNext(requests, responses, limit) ==
    \E r \in Reqs :
        \/ Receive(r, requests, limit)
        \/ HealthCheck(r)
        \/ OnProxyReq(r)
        \/ UpstreamResponds(r, responses)
        \/ ProxyResData(r)
        \/ ProxyResEnd(r)
        \/ ProxyResError(r)
        \/ ProxyError(r)
        \/ UpstreamStalls(r)
        \/ Close(r)

Init == ProxyInit(SpecEnvs)

Next == ProxyNext(SpecRequests, SpecResponses, NumReq)

Spec == Init /\ [][Next]_vars

(***************************************************************************)
(* SpecOneByOne: one request at a time, over more configurations, urls and *)
(* upstream responses                                                      *)
(***************************************************************************)
OneByOneEnvs ==
    {[NoEnv EXCEPT !.INJECT_EXCLUDE_PATHS = x, !.INJECT_CT_MATCH = c,
                   !.INJECT_IF_HEADER = h, !.INJECT_HTML = p] :
        x \in {<<>>, <<" ", "w", "$", ",", ",", "^", "/", "j", " ">>},
        c \in {<<>>, <<"A", "/", "J">>},
        h \in {<<>>, <<"X", "-", "F">>, <<"C", "L">>},
        p \in {<<>>, <<"p", EAcute>>, <<" ">>}}

OneByOneRequests ==
    {[method |-> "GET", url |-> Url(p, q)] :
        p \in {<<"/", "w">>, <<"/", "y">>}, q \in {<<>>, <<"w">>, <<"x">>}}
    \cup {[method |-> "GET", url |-> <<"/", "h">>]}

OneByOneBodies ==
    {<<"m">>, <<"x">>, <<"0xC3", "0xA9", "m">>, <<"0xA9", "m">>, <<"m", "x", "m">>}

OneByOneResponses ==
    {Response(200, t \cup f, b) :
        t \in {Plain, Html, HtmlCharset, Json}, f \in {Plain, Flag}, b \in OneByOneBodies}

InitOneByOne == ProxyInit(OneByOneEnvs)

NextOneByOne == ProxyNext(OneByOneRequests, OneByOneResponses, 1)

SpecOneByOne == InitOneByOne /\ [][NextOneByOne]_vars

(***************************************************************************)
(* SpecFair: concurrent requests under the default configuration; every    *)
(* handler whose event is pending runs, and the client and the upstream    *)
(* are free to act or not                                                  *)
(***************************************************************************)
FairRequests ==
    {[method |-> "GET", url |-> <<"/", "h">>],
     [method |-> "GET", url |-> <<"/", "x">>]}

FairResponses == {Response(200, Html, <<"m", "x", "m">>)}

InitFair == ProxyInit({NoEnv})

NextFair == ProxyNext(FairRequests, FairResponses, NumReq)

\* A step of the handling of request r once it is received
Handle(r, responses) ==
    \/ HealthCheck(r)
    \/ OnProxyReq(r)
    \/ UpstreamResponds(r, responses)
    \/ ProxyResData(r)
    \/ ProxyResEnd(r)
    \/ ProxyResError(r)
    \/ ProxyError(r)
    \/ UpstreamStalls(r)

Fairness == \A r \in Reqs : WF_vars(Handle(r, FairResponses))

SpecFair == InitFair /\ [][NextFair]_vars /\ Fairness

(***************************************************************************)
(* injectIntoHtml as a function: one call on a body, under a configuration *)
(***************************************************************************)
BodyChars == {"m", "x"}

PayloadChars == {"$", "&", BackTick, "'", "p", " "}

Targets == {<<>>, <<"m", "m">>, <<"m", "x">>}

Modes == {<<>>, After, <<"A", "F", "T", "E", "R">>, DEFAULT_INJECT_MODE}

Onces == {<<>>, DEFAULT_INJECT_ONCE, <<"T", "R", "U", "E">>, <<"f", "a", "l", "s", "e">>}

InjectEnvs ==
    {[NoEnv EXCEPT !.INJECT_HTML = p, !.INJECT_TARGET = t, !.INJECT_MODE = m,
                   !.INJECT_ONCE = o] :
        p \in Seqs(PayloadChars, MaxPayload), t \in Targets, m \in Modes, o \in Onces}

InitInject ==
    /\ \E env \in InjectEnvs : Configured(env)
    /\ injArg \in Seqs(BodyChars, MaxBody)
    /\ injRet = NotCalled
    /\ Idle

CallInject ==
    /\ ~injRet.called
    /\ LET r == injectIntoHtml(injArg)
       IN injRet' = [out |-> r.out, changed |-> r.changed, called |-> TRUE]
    /\ UNCHANGED <<config, injArg, proxy>>

NextInject == CallInject

SpecInject == InitInject /\ [][NextInject]_vars

(***************************************************************************)
(* Claims about injectIntoHtml                                             *)
(***************************************************************************)
Blank(payload) == trim(payload) = <<>>

\* The positions at which t occurs in s
Occurrences(s, t) == {i \in 1..Len(s) : MatchAt(s, t, i)}

\* The insertion unit of a placement
InsertionUnit(payload, target, mode) ==
    IF mode = After THEN target \o payload ELSE payload \o target

\* s with the occurrences of t, found left to right, replaced by the text u
\* taken literally: the first one only, or all of them
RECURSIVE LiteralReplace(_, _, _, _)
LiteralReplace(s, t, u, all) ==
    IF Len(s) < Len(t) \/ t = <<>> THEN s
    ELSE IF MatchAt(s, t, 1)
    THEN u \o (IF all THEN LiteralReplace(Drop(s, Len(t)), t, u, all) ELSE Drop(s, Len(t)))
    ELSE <<s[1]>> \o LiteralReplace(Tail(s), t, u, all)

\* C6: injectIntoHtml returns (body, changed = false), the body untouched,
\* whenever the payload is empty or blank (whether or not the body holds the
\* marker) and whenever the body does not contain the marker.
C6_NoOp ==
    /\ (injRet.called /\ (Blank(INJECT_HTML) \/ ~includes(injArg, INJECT_TARGET)))
          => (injRet.out = injArg /\ ~injRet.changed)
    /\ injRet.called
          => injectWith(injArg, <<>>, INJECT_TARGET, INJECT_MODE, INJECT_ONCE)
                = [out |-> injArg, changed |-> FALSE]

C6_Witness ==
    /\ injRet.called
    /\ Blank(INJECT_HTML)
    /\ includes(injArg, INJECT_TARGET)
    /\ injRet.out = injArg

\* C7: for a body that contains the marker exactly once and a non-blank
\* payload, FIRST_ONLY and ALL return the same output and the same changed flag.
C7_PoliciesAgree ==
    (injRet.called /\ Cardinality(Occurrences(injArg, INJECT_TARGET)) = 1
        /\ ~Blank(INJECT_HTML))
      => injectWith(injArg, INJECT_HTML, INJECT_TARGET, INJECT_MODE, TRUE)
           = injectWith(injArg, INJECT_HTML, INJECT_TARGET, INJECT_MODE, FALSE)

\* C8: for a body that contains the marker twice and a non-blank payload, ALL
\* replaces both occurrences by the insertion unit and FIRST_ONLY replaces the
\* first occurrence only, the text from the second marker onwards kept.
C8_TwoMarkers ==
    LET occ == Occurrences(injArg, INJECT_TARGET)
        n   == Len(INJECT_TARGET)
    IN (injRet.called /\ ~Blank(INJECT_HTML) /\ Cardinality(occ) = 2
          /\ \E i, j \in occ : j >= i + n)
       => LET i    == CHOOSE i \in occ : \A j \in occ : i <= j
              j    == CHOOSE j \in occ : \A i2 \in occ : i2 <= j
              p0   == Take(injArg, i - 1)
              p1   == SubSeq(injArg, i + n, j - 1)
              p2   == Drop(injArg, j + n - 1)
              unit == InsertionUnit(INJECT_HTML, INJECT_TARGET, INJECT_MODE)
          IN injRet.out = IF INJECT_ONCE
                          THEN p0 \o unit \o p1 \o INJECT_TARGET \o p2
                          ELSE p0 \o unit \o p1 \o unit \o p2

\* C9: for a body that contains the marker and a non-blank payload, the output
\* holds marker ++ payload (AFTER) or payload ++ marker (any other placement)
\* in the place of each replaced marker, and the input's text everywhere else.
C9_Placement ==
    (injRet.called /\ ~Blank(INJECT_HTML) /\ includes(injArg, INJECT_TARGET))
      => injRet.out = LiteralReplace(injArg, INJECT_TARGET,
                          InsertionUnit(INJECT_HTML, INJECT_TARGET, INJECT_MODE),
                          ~INJECT_ONCE)

\* What holds of the code: C7, C8 and C9 for payloads without "$"
NoDollar(payload) == \A k \in 1..Len(payload) : payload[k] # "$"

InjectLiteralWithoutDollar ==
    NoDollar(INJECT_HTML) => (C7_PoliciesAgree /\ C8_TwoMarkers /\ C9_Placement)

(***************************************************************************)
(* Claims about the proxy                                                  *)
(***************************************************************************)
\* The response written to the client of request r by the interceptor
Intercepted(r) ==
    /\ pc[r] = "responded"
    /\ Len(res[r]) >= 1
    /\ res[r][1].by = "interceptor"

\* C1: a request whose path matches an exclusion pattern, whatever its query
\* string and whatever the upstream sends, gets the upstream body byte for
\* byte, and the injector is not run for it.
C1_ExcludedUntouched ==
    \A r \in Reqs :
        (/\ Intercepted(r)
         /\ \E i \in 1..Len(EXCLUDE_PATTERNS) :
               test(EXCLUDE_PATTERNS[i], PathOf(req[r].url)))
        => (res[r][1].body = proxyRes[r].body /\ ~res[r][1].injectorRan)

\* The rules of eligibility, read off the state of request r
RulesPass(r) ==
    LET h       == proxyRes[r].headers
        ct      == toLowerCase(IF ContentType \in DOMAIN h THEN h[ContentType] ELSE <<>>)
        ctOk    == CT_MATCH = <<>> \/ \E i \in 1..(Len(ct) + 1) : MatchAt(ct, CT_MATCH, i)
        hdrOk   == INJECT_IF_HEADER = <<>>
                     \/ \E n \in DOMAIN h \cup {ContentLength} :
                           toLowerCase(n) = INJECT_IF_HEADER
    IN [excluded |-> skipInject[r] = "true", ctOk |-> ctOk, hdrOk |-> hdrOk]

Eligible(r) == ~RulesPass(r).excluded /\ RulesPass(r).ctOk /\ RulesPass(r).hdrOk

\* C2: the injector runs on a buffered response only if the request was not
\* marked excluded, the content-type contains the configured filter (compared
\* without case, when the filter is set) and a header of the required name is
\* present (when one is configured); when a rule fails the upstream body is
\* forwarded unmodified, marker or not.
C2_Eligibility ==
    \A r \in Reqs :
        Intercepted(r)
        => /\ res[r][1].injectorRan => Eligible(r)
           /\ ~Eligible(r) => /\ res[r][1].body = proxyRes[r].body
                              /\ res[r][1].contentLength = proxyRes[r].contentLength
                              /\ ~res[r][1].changed

C2_Witness ==
    \E r \in Reqs :
        /\ Intercepted(r)
        /\ ~RulesPass(r).excluded
        /\ RulesPass(r).hdrOk
        /\ INJECT_IF_HEADER # <<>>
        /\ ~RulesPass(r).ctOk
        /\ ~Blank(INJECT_HTML)
        /\ includes(utf8Decode(proxyRes[r].body), INJECT_TARGET)
        /\ res[r][1].body = proxyRes[r].body

\* What the handling of request r holds
Context(r) == <<pc[r], req[r], skipInject[r], proxyReq[r], proxyRes[r], buffer[r], res[r]>>

\* C3: under any interleaving, the response phase of a request reads the skip
\* flag computed from that request's own url and rewrites that request's own
\* buffered body, and no step of one request writes the flag or the buffer of
\* another.
C3_Isolation ==
    /\ [](\A r \in Reqs :
            Intercepted(r)
            => LET own == Interceptor(proxyRes[r].body, proxyRes[r],
                                      ToFlag(isExcludedPath(req[r].url)))
               IN /\ res[r][1].body = own.body
                  /\ res[r][1].injectorRan = own.injectorRan
                  /\ res[r][1].contentLength = own.contentLength)
    /\ [][\A r, s \in Reqs :
            (r # s /\ Context(r)' # Context(r))
            => (skipInject'[s] = skipInject[s] /\ buffer'[s] = buffer[s])]_vars

C3_Witness ==
    \E r, s \in Reqs :
        /\ r # s
        /\ Intercepted(r)
        /\ skipInject[r] = "true"
        /\ res[r][1].body = proxyRes[r].body
        /\ Intercepted(s)
        /\ skipInject[s] = "false"
        /\ res[s][1].changed
        /\ proxyRes[r].body # proxyRes[s].body

\* C4: when the injector reports changed = true, the content-length sent to
\* the client is the length in UTF-8 bytes of the body that is sent.
C4_ContentLength ==
    \A r \in Reqs :
        (Intercepted(r) /\ res[r][1].changed)
        => res[r][1].contentLength = Len(res[r][1].body)

C4_Witness ==
    \E r \in Reqs :
        /\ Intercepted(r)
        /\ res[r][1].changed
        /\ \E i \in 1..Len(res[r][1].body) : res[r][1].body[i] \in NonAsciiBytes
        /\ \E i \in 1..Len(INJECT_HTML) : INJECT_HTML[i] = EAcute
        /\ Len(res[r][1].body) # Len(utf8Decode(res[r][1].body))

\* Request r has been routed: answered by the route, or sent upstream
Routed(r) == pc[r] \notin {"idle", "received"}

AnsweredByHealth(r) ==
    /\ pc[r] = "responded"
    /\ Len(res[r]) = 1
    /\ res[r][1].by = "health"
    /\ res[r][1].statusCode = 200
    /\ proxyReq[r].calls = 0

SentUpstream(r) ==
    /\ proxyReq[r].calls = 1
    /\ \A i \in 1..Len(res[r]) : res[r][i].by # "health"

\* C5 as stated: every request to the healthcheck path, whatever its method
\* and the state of the upstream, is answered with 200 and never forwarded,
\* and every request to another path is forwarded to the upstream.
C5_AsStated ==
    \A r \in Reqs :
        Routed(r)
        => IF PathOf(req[r].url) = HEALTH_PATH
           THEN AnsweredByHealth(r) ELSE SentUpstream(r)

\* C5, amended: every GET or HEAD request whose path is the healthcheck path
\* (compared without case, one trailing slash allowed) is answered with 200
\* whatever the upstream does and is never forwarded; every other request,
\* the other methods on the healthcheck path included, is forwarded.
C5_HealthRoute ==
    \A r \in Reqs :
        Routed(r)
        => LET path == toLowerCase(PathOf(req[r].url))
               hp   == toLowerCase(HEALTH_PATH)
           IN IF req[r].method \in {"GET", "HEAD"} /\ path \in {hp, hp \o <<"/">>}
              THEN AnsweredByHealth(r) ELSE SentUpstream(r)

C5_Witness ==
    \E r, s \in Reqs :
        /\ AnsweredByHealth(r)
        /\ req[s].method = "POST"
        /\ PathOf(req[s].url) = HEALTH_PATH
        /\ pc[s] = "responded"
        /\ res[s][1].by = "proxyError"
        /\ SentUpstream(s)

\* The stages of a request follow one another in this order
StageOrder ==
    {<<"idle", "received">>, <<"received", "forwarded">>, <<"received", "responded">>,
     <<"forwarded", "receiving">>, <<"forwarded", "responded">>,
     <<"receiving", "responded">>, <<"responded", "idle">>}

\* What C10 says of every state
C10_Safe ==
    \A r \in Reqs :
        /\ Len(res[r]) = IF pc[r] = "responded" THEN 1 ELSE 0
        /\ proxyReq[r].calls <= 1
        /\ pc[r] \in {"forwarded", "receiving"} => skipInject[r] \in {"true", "false"}
        /\ Intercepted(r)
           => /\ buffer[r] = proxyRes[r].body
              /\ res[r][1].body \in
                    {proxyRes[r].body,
                     utf8Encode(injectIntoHtml(utf8Decode(proxyRes[r].body)).out)}
        /\ (pc[r] = "responded" /\ res[r][1].by \in {"proxyError", "streamError"})
           => res[r][1].body = ErrorBody

\* What C10 says of every step
C10_Step ==
    \A r \in Reqs :
        /\ pc'[r] # pc[r] => <<pc[r], pc'[r]>> \in StageOrder
        /\ Context(r)' # Context(r) => \A s \in Reqs \ {r} : Context(s)' = Context(s)

\* C10 as stated: every received request reaches RESPONDED, exactly once,
\* through the stages in order; the client gets the whole original or the
\* whole injected body; an upstream failure is not retried and ends in an
\* error response, other requests untouched.
C10_AsStated ==
    /\ []C10_Safe
    /\ [][C10_Step]_vars
    /\ \A r \in Reqs : (pc[r] = "received") ~> (pc[r] = "responded")

\* C10, amended: as stated, for every received request whose upstream call
\* does not stall (no timeout ends a call the upstream leaves unanswered).
C10_Lifecycle ==
    /\ []C10_Safe
    /\ [][C10_Step]_vars
    /\ \A r \in Reqs :
          (pc[r] = "received") ~> (pc[r] = "responded" \/ proxyReq[r].stalled)

C10_Witness ==
    \E r, s \in Reqs :
        /\ pc[r] = "responded"
        /\ res[r][1].by = "streamError"
        /\ buffer[r] # <<>>
        /\ Intercepted(s)
        /\ res[s][1].changed

=============================================================================
